---- MODULE Spec2Model ----
(***************************************************************************)
(* Model of the rasppi-utils status dashboard (status-dashboard/scripts/   *)
(* server.py): the utilities.conf loader, the systemd unit prober, the     *)
(* utility status aggregator and the journal log fetcher.                  *)
(*                                                                         *)
(* Text is modelled as a sequence of pieces.  A piece is an atomic run of  *)
(* characters that is either entirely whitespace (" ", "\n") or has no    *)
(* whitespace at its ends and no line break ("active", "#", "a"), so       *)
(* Python's str.strip(), iteration of a file by lines, str.split("\n") and *)
(* str.startswith("#") act on pieces exactly as they act on characters.    *)
(***************************************************************************)
EXTENDS Naturals, Sequences, FiniteSets, TLC

VARIABLES
    conf,       \* utilities.conf: [exists |-> BOOLEAN, text |-> text]
    pc,         \* position of the request being served
    utilities,  \* get_all_status: the list get_enabled_utilities returned
    idx,        \* get_all_status: index of the utility being aggregated
    caller,     \* get_unit_status: the call site it returns to
    unit,       \* get_unit_status: unit_name
    result,     \* get_unit_status: the result dict
    status,     \* get_utility_status: the status dict
    acc,        \* get_all_status: the list comprehension built so far
    runs,       \* subprocess.run calls of this request, with their outcomes
    response,   \* value returned to the caller of the request
    utility,    \* get_logs: the utility argument
    lines,      \* get_logs: result.stdout.strip().split("\n")
    entries,    \* get_logs: entries parsed so far
    exc,        \* get_logs: the exception being handled, as str(e)
    path,       \* api_logs: the <utility> segment of the URL, as characters
    served,     \* whether an earlier status request has been answered
    module,     \* keep-alive: the script whose functions are called
    env_path,   \* keep-alive: the env_path argument
    environ,    \* keep-alive: os.environ
    dotenv,     \* keep-alive: the variables the .env file sets
    backend,    \* keep-alive: how the Supabase backend answers
    config,     \* keep-alive: main's config
    calls       \* keep-alive: calls made to functions and to the backend

pinger == <<module, env_path, environ, dotenv, backend, config, calls>>

vars == <<conf, pc, utilities, idx, caller, unit, result, status, acc, runs,
          response, utility, lines, entries, exc, path, served, pinger>>

-----------------------------------------------------------------------------
(* Bounds of the model.                                                    *)

MaxStdoutLen == 2   \* pieces of a systemctl stdout (get_unit_status alone)
MaxConfLen == 4     \* pieces of a utilities.conf text (loader alone)
MaxConfLines == 2   \* lines of utilities.conf (status requests)
MaxJournalLines == 3 \* lines of a journalctl stdout

SeqsUpTo(S, n) == UNION {[1..k -> S] : k \in 0..n}

-----------------------------------------------------------------------------
(* Text primitives (Python str methods used by server.py).                 *)

Whitespace == {" ", "\n"}

RECURSIVE LStrip(_)
LStrip(s) ==
    IF s # <<>> /\ Head(s) \in Whitespace THEN LStrip(Tail(s)) ELSE s

RECURSIVE RStrip(_)
RStrip(s) ==
    IF s # <<>> /\ s[Len(s)] \in Whitespace
    THEN RStrip(SubSeq(s, 1, Len(s) - 1))
    ELSE s

\* str.strip()
Strip(s) == RStrip(LStrip(s))

\* the str value of a text: its pieces concatenated
RECURSIVE Join(_)
Join(s) == IF s = <<>> THEN "" ELSE Head(s) \o Join(Tail(s))

\* `for line in f`: the text cut after every "\n", line ends kept
RECURSIVE FileLines(_, _)
FileLines(s, cur) ==
    IF s = <<>> THEN (IF cur = <<>> THEN <<>> ELSE <<cur>>)
    ELSE IF Head(s) = "\n"
         THEN <<Append(cur, "\n")>> \o FileLines(Tail(s), <<>>)
         ELSE FileLines(Tail(s), Append(cur, Head(s)))

\* str.split("\n"): always at least one element
RECURSIVE SplitLines(_, _)
SplitLines(s, cur) ==
    IF s = <<>> THEN <<cur>>
    ELSE IF Head(s) = "\n"
         THEN <<cur>> \o SplitLines(Tail(s), <<>>)
         ELSE SplitLines(Tail(s), Append(cur, Head(s)))

-----------------------------------------------------------------------------
(* get_enabled_utilities                                                   *)

\* a slip: the comment test left out
KeepsLineComments(line) == Strip(line) # <<>>

\* line 28-29: line = line.strip(); if line and not line.startswith("#")
KeepsLine(line) == Strip(line) # <<>> /\ Head(Strip(line)) # "#"

RECURSIVE LoadLines(_)
LoadLines(ls) ==
    IF ls = <<>> THEN <<>>
    ELSE IF KeepsLine(Head(ls))
         THEN <<Join(Strip(Head(ls)))>> \o LoadLines(Tail(ls))
         ELSE LoadLines(Tail(ls))

\* a slip: a missing file read as a built-in list
get_enabled_utilities_builtin(file) ==
    IF ~file.exists
    THEN <<"status-dashboard">>
    ELSE LoadLines(FileLines(file.text, <<>>))

get_enabled_utilities(file) ==
    IF ~file.exists THEN <<>> ELSE LoadLines(FileLines(file.text, <<>>))

-----------------------------------------------------------------------------
(* get_unit_status                                                         *)

\* outcome of one subprocess.run: it raised, or it returned with a stdout
Raised == [raised |-> TRUE, stdout |-> <<>>]
Returned(text) == [raised |-> FALSE, stdout |-> text]
Outcomes(texts) == {Raised} \cup {Returned(t) : t \in texts}

\* line 37-41
InitialResult(unit_name) ==
    [name |-> unit_name, active |-> "unknown", enabled |-> "unknown"]

\* a slip: the captured stdout used without .strip()
StrippedOrUnstripped(stdout, default) ==
    IF stdout = <<>> THEN default ELSE Join(stdout)

\* line 49, 59: stdout.strip() or default
StrippedOr(stdout, default) ==
    IF Strip(stdout) = <<>> THEN default ELSE Join(Strip(stdout))

\* a slip: the except clause leaves the axis at its initial value
ProbeValueUnset(outcome, default) ==
    IF outcome.raised THEN "unknown" ELSE StrippedOr(outcome.stdout, default)

\* a slip: the except clause reports the exception's text
ProbeValueExcText(outcome, default) ==
    IF outcome.raised
    THEN "[Errno 2] No such file or directory: 'systemctl'"
    ELSE StrippedOr(outcome.stdout, default)

\* line 43-51, 53-61: try: ... stdout.strip() or default; except: "error"
ProbeValue(outcome, default) ==
    IF outcome.raised THEN "error" ELSE StrippedOr(outcome.stdout, default)

Run(cmd, unit_name, outcome) ==
    [cmd |-> cmd, unit |-> unit_name, outcome |-> outcome]

\* line 43-51
IsActive(Outs) ==
    /\ pc = "is_active"
    /\ \E o \in Outs :
        /\ runs' = Append(runs, Run("is-active", unit, o))
        /\ result' = [result EXCEPT !.active = ProbeValue(o, "inactive")]
    /\ pc' = "is_enabled"
    /\ UNCHANGED <<conf, utilities, idx, caller, unit, status, acc,
                   response, utility, lines, entries, exc,
                   path, served, pinger>>

\* line 53-61
IsEnabled(Outs) ==
    /\ pc = "is_enabled"
    /\ \E o \in Outs :
        /\ runs' = Append(runs, Run("is-enabled", unit, o))
        /\ result' = [result EXCEPT !.enabled = ProbeValue(o, "disabled")]
    /\ pc' = "unit_return"
    /\ UNCHANGED <<conf, utilities, idx, caller, unit, status, acc,
                   response, utility, lines, entries, exc,
                   path, served, pinger>>

-----------------------------------------------------------------------------
(* get_unit_status called on its own, on every stdout text up to           *)
(* MaxStdoutLen pieces.                                                    *)

UnitNames == {"a.service", "a.timer"}
ActivePieces == {" ", "\n", "active", "failed"}
EnabledPieces == {" ", "\n", "enabled", "static", "not-found"}
UnitActiveOutcomes == Outcomes(SeqsUpTo(ActivePieces, MaxStdoutLen))
UnitEnabledOutcomes == Outcomes(SeqsUpTo(EnabledPieces, MaxStdoutLen))

NoFile == [exists |-> FALSE, text |-> <<>>]
NoResult == [name |-> "", active |-> "", enabled |-> ""]
NoStatus == [name |-> "", enabled |-> FALSE, services |-> <<>>,
             timers |-> <<>>]
NoResponse == [kind |-> "none"]

\* the keep-alive script is not in use
NoPinger ==
    /\ module = ""
    /\ env_path = ""
    /\ environ = <<>>
    /\ dotenv = <<>>
    /\ backend = ""
    /\ config = <<>>
    /\ calls = <<>>

\* no request has been made yet
Idle ==
    /\ pc = "idle"
    /\ utilities = <<>>
    /\ idx = 0
    /\ caller = "none"
    /\ unit = ""
    /\ result = NoResult
    /\ status = NoStatus
    /\ acc = <<>>
    /\ runs = <<>>
    /\ response = NoResponse
    /\ utility = ""
    /\ lines = <<>>
    /\ entries = <<>>
    /\ exc = ""
    /\ path = <<>>

InitUnit == conf = NoFile /\ Idle /\ served = FALSE /\ NoPinger

\* a call get_unit_status(unit_name): line 35-41
CallUnit ==
    /\ pc = "idle"
    /\ \E u \in UnitNames :
        /\ unit' = u
        /\ result' = InitialResult(u)
    /\ caller' = "unit"
    /\ runs' = <<>>
    /\ pc' = "is_active"
    /\ UNCHANGED <<conf, utilities, idx, status, acc, response, utility,
                   lines, entries, exc,
                   path, served, pinger>>

UnitIsActive == IsActive(UnitActiveOutcomes)
UnitIsEnabled == IsEnabled(UnitEnabledOutcomes)

\* line 63
UnitReturn ==
    /\ pc = "unit_return"
    /\ caller = "unit"
    /\ response' = [kind |-> "unit", value |-> result]
    /\ pc' = "done"
    /\ UNCHANGED <<conf, utilities, idx, caller, unit, result, status, acc,
                   runs, utility, lines, entries, exc,
                   path, served, pinger>>

NextUnit == CallUnit \/ UnitIsActive \/ UnitIsEnabled \/ UnitReturn

SpecUnit == InitUnit /\ [][NextUnit]_vars

-----------------------------------------------------------------------------
(* Properties of get_unit_status.                                          *)

AllSpace(s) == \A i \in 1..Len(s) : s[i] \in {" ", "\n"}

\* s without its leading and trailing whitespace, by positions
Trimmed(s) ==
    LET keep == {i \in 1..Len(s) : s[i] \notin {" ", "\n"}}
        lo == CHOOSE i \in keep : \A j \in keep : i <= j
        hi == CHOOSE i \in keep : \A j \in keep : j <= i
    IN  IF keep = {} THEN <<>> ELSE SubSeq(s, lo, hi)

UnitReturned == pc = "done" /\ response.kind = "unit"

\* what one axis must report, from the outcome of its own probe alone
AxisReport(o, default) ==
    IF o.raised THEN "error"
    ELSE IF AllSpace(o.stdout) THEN default
    ELSE Join(Trimmed(o.stdout))

\* C3: the two probes of get_unit_status degrade independently: an axis
\* whose command failed to execute is reported as "error", the call still
\* goes on to the is-enabled probe after a failed is-active probe and
\* returns a record, and each axis reports the result of its own probe
\* whatever happened to the other.
C3_ProbesDegradeIndependently ==
    /\ pc = "is_enabled" =>
          /\ Len(runs) = 1
          /\ runs[1].outcome.raised => result.active = "error"
    /\ pc = "unit_return" => Len(runs) = 2
    /\ UnitReturned =>
          /\ Len(runs) = 2
          /\ runs[1].cmd = "is-active" /\ runs[1].unit = unit
          /\ runs[2].cmd = "is-enabled" /\ runs[2].unit = unit
          /\ runs[1].outcome.raised => response.value.active = "error"
          /\ runs[2].outcome.raised => response.value.enabled = "error"
          /\ response.value.active = AxisReport(runs[1].outcome, "inactive")
          /\ response.value.enabled = AxisReport(runs[2].outcome, "disabled")
          /\ response.value.name = unit

C3_Witness ==
    /\ UnitReturned
    /\ runs[1].outcome.raised
    /\ ~runs[2].outcome.raised
    /\ response.value.active = "error"
    /\ response.value.enabled = "enabled"

ActiveVocabulary == {"active", "inactive", "unknown", "error"}
EnabledVocabulary == {"enabled", "disabled", "unknown", "error", "not-found"}

\* C4 as stated: whatever systemctl prints, the returned record has
\* `active` in {active, inactive, unknown, error} and `enabled` in
\* {enabled, disabled, unknown, error, not-found}.
C4_ClosedVocabulary ==
    UnitReturned =>
        /\ response.value.active \in ActiveVocabulary
        /\ response.value.enabled \in EnabledVocabulary

InVocabulary(o, vocabulary) ==
    \/ o.raised
    \/ AllSpace(o.stdout)
    \/ Join(Trimmed(o.stdout)) \in vocabulary

\* C4 amended: `active` is in {active, inactive, unknown, error} exactly
\* when the is-active command failed to execute or its stripped stdout is
\* empty or one of those words, and `enabled` is in {enabled, disabled,
\* unknown, error, not-found} exactly when the same holds of is-enabled; any
\* other output (failed, static) is returned as printed.
C4_VocabularyOfOutput ==
    UnitReturned =>
        /\ response.value.active \in ActiveVocabulary
              <=> InVocabulary(runs[1].outcome, ActiveVocabulary)
        /\ response.value.enabled \in EnabledVocabulary
              <=> InVocabulary(runs[2].outcome, EnabledVocabulary)
        /\ ~InVocabulary(runs[1].outcome, ActiveVocabulary) =>
              response.value.active = Join(Trimmed(runs[1].outcome.stdout))
        /\ ~InVocabulary(runs[2].outcome, EnabledVocabulary) =>
              response.value.enabled = Join(Trimmed(runs[2].outcome.stdout))

C4_Witness ==
    /\ UnitReturned
    /\ runs[1].outcome = Returned(<<"failed", "\n">>)
    /\ runs[2].outcome = Returned(<<"static", "\n">>)
    /\ response.value.active = "failed"
    /\ response.value.enabled = "static"

\* C5: a probe that executed with an empty or whitespace-only stdout is
\* reported as "inactive" (is-active) or "disabled" (is-enabled); a stdout
\* with other text is reported as that text without its surrounding
\* whitespace.
C5_EmptyStdoutDefaults ==
    UnitReturned =>
        /\ \A i \in 1..2 :
              LET o == runs[i].outcome
                  got == IF i = 1 THEN response.value.active
                         ELSE response.value.enabled
              IN  ~o.raised =>
                     /\ AllSpace(o.stdout) =>
                           got = (IF i = 1 THEN "inactive" ELSE "disabled")
                     /\ ~AllSpace(o.stdout) => got = Join(Trimmed(o.stdout))

C5_Witness ==
    /\ UnitReturned
    /\ runs[1].outcome = Returned(<<>>)
    /\ runs[2].outcome = Returned(<<" ", "\n">>)
    /\ response.value.active = "inactive"
    /\ response.value.enabled = "disabled"

\* a stdout with surrounding whitespace is reported stripped
C5_WitnessStripped ==
    /\ UnitReturned
    /\ runs[1].outcome = Returned(<<" ", "active">>)
    /\ response.value.active = "active"

-----------------------------------------------------------------------------
(* get_enabled_utilities called on its own, on every utilities.conf text   *)
(* up to MaxConfLen pieces and on the text of the documented scenario.     *)

ConfPieces == {"a", "b", "#", " ", "\n"}
ScenarioText == <<"a", "\n", "#", " ", "comment", "\n", "\n", "b", "\n">>
ConfTexts == SeqsUpTo(ConfPieces, MaxConfLen) \cup {ScenarioText}
ConfFile(text) == [exists |-> TRUE, text |-> text]

InitConf ==
    /\ conf \in ({NoFile} \cup {ConfFile(t) : t \in ConfTexts})
    /\ Idle /\ served = FALSE /\ NoPinger

\* a call get_enabled_utilities(): line 19-32
LoadConf ==
    /\ pc = "idle"
    /\ response' = [kind |-> "utilities",
                    value |-> get_enabled_utilities(conf)]
    /\ pc' = "done"
    /\ UNCHANGED <<conf, utilities, idx, caller, unit, result, status, acc,
                   runs, utility, lines, entries, exc,
                   path, served, pinger>>

NextConf == LoadConf

SpecConf == InitConf /\ [][NextConf]_vars

ConfLoaded == pc = "done" /\ response.kind = "utilities"

\* a line of the file without its line end
Body(line) ==
    IF line # <<>> /\ line[Len(line)] = "\n"
    THEN SubSeq(line, 1, Len(line) - 1)
    ELSE line

TextsOf(ls) == [i \in 1..Len(ls) |-> Join(ls[i])]

\* C6 as stated: the loader returns exactly the lines of the file that are
\* neither blank nor "#"-prefixed, in file order.
C6_ExactLines ==
    (ConfLoaded /\ conf.exists) =>
        LET raw == FileLines(conf.text, <<>>)
            bodies == [i \in 1..Len(raw) |-> Body(raw[i])]
            kept == SelectSeq(bodies,
                        LAMBDA l : ~AllSpace(l) /\ Head(l) # "#")
        IN  response.value = TextsOf(kept)

\* C6 amended: the loader returns, in file order and with nothing dropped,
\* added, deduplicated or reordered, the whitespace-stripped text of exactly
\* those lines whose stripped text is non-empty and does not start with "#".
C6_StrippedLines ==
    (ConfLoaded /\ conf.exists) =>
        LET raw == FileLines(conf.text, <<>>)
            trimmed == [i \in 1..Len(raw) |-> Trimmed(raw[i])]
            kept == SelectSeq(trimmed, LAMBDA l : l # <<>> /\ Head(l) # "#")
        IN  response.value = TextsOf(kept)

C6_Witness ==
    /\ ConfLoaded
    /\ conf = ConfFile(ScenarioText)
    /\ response.value = <<"a", "b">>

\* an indented name is loaded stripped
C6_WitnessIndented ==
    /\ ConfLoaded
    /\ conf = ConfFile(<<" ", "a", " ", "\n">>)
    /\ response.value = <<"a">>

\* an indented comment is skipped
C6_WitnessIndentedComment ==
    /\ ConfLoaded
    /\ conf = ConfFile(<<" ", "#", "\n", "a">>)
    /\ response.value = <<"a">>

C6_WitnessDuplicates ==
    /\ ConfLoaded
    /\ conf = ConfFile(<<"b", "\n", "a", "\n">>)
    /\ response.value = <<"b", "a">>

-----------------------------------------------------------------------------
(* get_all_status, get_utility_status: a status request over a             *)
(* utilities.conf of up to MaxConfLines lines.                             *)

ConfLineSet == {<<"a", "\n">>, <<"b", "\n">>, <<"#", "a", "\n">>, <<"\n">>}

RECURSIVE Concat(_)
Concat(ls) == IF ls = <<>> THEN <<>> ELSE Head(ls) \o Concat(Tail(ls))

StatusConfs ==
    {NoFile} \cup
    {ConfFile(Concat(ls)) : ls \in SeqsUpTo(ConfLineSet, MaxConfLines)}

StatusActiveOutcomes == Outcomes({<<"active", "\n">>})
StatusEnabledOutcomes == Outcomes({<<"enabled", "\n">>, <<"not-found", "\n">>})

Init == conf \in StatusConfs /\ Idle /\ served = FALSE /\ NoPinger

\* line 89
GetAllStatus ==
    /\ pc = "idle"
    /\ utilities' = get_enabled_utilities(conf)
    /\ idx' = 1
    /\ acc' = <<>>
    /\ runs' = <<>>
    /\ pc' = "loop"
    /\ UNCHANGED <<conf, caller, unit, result, status, response, utility,
                   lines, entries, exc,
                   path, served, pinger>>

\* line 68
ServiceName(u) == u \o ".service"
\* line 69
TimerName(u) == u \o ".timer"

\* line 91 (next element), 66-69, 74 (the call get_unit_status(service_name))
GetUtilityStatus ==
    /\ pc = "loop"
    /\ idx <= Len(utilities)
    /\ utility' = utilities[idx]
    /\ status' = NoStatus
    /\ caller' = "service"
    /\ unit' = ServiceName(utilities[idx])
    /\ result' = InitialResult(ServiceName(utilities[idx]))
    /\ pc' = "is_active"
    /\ UNCHANGED <<conf, utilities, idx, acc, runs, response, lines, entries, exc,
                   path, served, pinger>>

\* a slip: the record without its enabled mark
NewStatusNotEnabled(u, service_status) ==
    [name |-> u, enabled |-> FALSE, services |-> <<service_status>>,
     timers |-> <<>>]

\* line 71-76
NewStatus(u, service_status) ==
    [name |-> u, enabled |-> TRUE, services |-> <<service_status>>,
     timers |-> <<>>]

\* line 71-79 (the call get_unit_status(timer_name))
ServiceReturn ==
    /\ pc = "unit_return"
    /\ caller = "service"
    /\ status' = NewStatus(utility, result)
    /\ caller' = "timer"
    /\ unit' = TimerName(utility)
    /\ result' = InitialResult(TimerName(utility))
    /\ pc' = "is_active"
    /\ UNCHANGED <<conf, utilities, idx, acc, runs, response, utility, lines,
                   entries, exc,
                   path, served, pinger>>

\* a slip: only "not-found" hides the timer
ShowsTimerOnError(timer_status) == timer_status.enabled # "not-found"

\* line 81
ShowsTimer(timer_status) ==
    timer_status.enabled \notin {"not-found", "error"}

\* a slip: the timer record appended to the services
WithTimerAsService(st, timer_status) ==
    IF ShowsTimer(timer_status)
    THEN [st EXCEPT !.services = Append(@, timer_status)]
    ELSE st

\* line 81-82
WithTimer(st, timer_status) ==
    IF ShowsTimer(timer_status)
    THEN [st EXCEPT !.timers = Append(@, timer_status)]
    ELSE st

\* line 81-84, 91 (the element is added to the list)
TimerReturn ==
    /\ pc = "unit_return"
    /\ caller = "timer"
    /\ status' = WithTimer(status, result)
    /\ acc' = Append(acc, WithTimer(status, result))
    /\ idx' = idx + 1
    /\ caller' = "none"
    /\ pc' = "loop"
    /\ UNCHANGED <<conf, utilities, unit, result, runs, response, utility,
                   lines, entries, exc,
                   path, served, pinger>>

\* line 90-92
AllStatusReturn ==
    /\ pc = "loop"
    /\ idx > Len(utilities)
    /\ response' = [kind |-> "all_status", value |-> [utilities |-> acc]]
    /\ pc' = "done"
    /\ UNCHANGED <<conf, utilities, idx, caller, unit, result, status, acc,
                   runs, utility, lines, entries, exc,
                   path, served, pinger>>

StatusIsActive == IsActive(StatusActiveOutcomes)
StatusIsEnabled == IsEnabled(StatusEnabledOutcomes)

\* the response is sent and the locals of the request are gone; the next
\* request finds utilities.conf as it then is (line 397-400, 21-22)
NextRequest ==
    /\ pc = "done"
    /\ conf' \in StatusConfs
    /\ pc' = "idle"
    /\ utilities' = <<>>
    /\ idx' = 0
    /\ caller' = "none"
    /\ unit' = ""
    /\ result' = NoResult
    /\ status' = NoStatus
    /\ acc' = <<>>
    /\ runs' = <<>>
    /\ response' = NoResponse
    /\ utility' = ""
    /\ served' = TRUE
    /\ UNCHANGED <<lines, entries, exc, path, pinger>>

Next ==
    \/ GetAllStatus
    \/ GetUtilityStatus
    \/ StatusIsActive
    \/ StatusIsEnabled
    \/ ServiceReturn
    \/ TimerReturn
    \/ AllStatusReturn

Spec == Init /\ [][Next]_vars

\* request after request, with two outcomes of each probe
RequestActiveOutcomes == Outcomes({<<"active", "\n">>})
RequestEnabledOutcomes == Outcomes({<<"enabled", "\n">>})
RequestIsActive == IsActive(RequestActiveOutcomes)
RequestIsEnabled == IsEnabled(RequestEnabledOutcomes)

NextRequests ==
    \/ NextRequest
    \/ GetAllStatus
    \/ GetUtilityStatus
    \/ RequestIsActive
    \/ RequestIsEnabled
    \/ ServiceReturn
    \/ TimerReturn
    \/ AllStatusReturn

SpecRequests == Init /\ [][NextRequests]_vars

-----------------------------------------------------------------------------
(* Properties of get_utility_status and get_all_status.                    *)

\* the utility records built so far, or returned
Reported ==
    IF pc = "done" /\ response.kind = "all_status"
    THEN response.value.utilities
    ELSE acc

\* the record get_unit_status owes for the probes runs[k], runs[k + 1]
ProbedRecord(name, k) ==
    [name |-> name,
     active |-> AxisReport(runs[k].outcome, "inactive"),
     enabled |-> AxisReport(runs[k + 1].outcome, "disabled")]

\* C1: in every utility record the timers list is empty when the
\* is-enabled probe of <name>.timer gave "not-found" or "error", and
\* otherwise holds exactly the status record of <name>.timer.
C1_TimersList ==
    \A i \in 1..Len(Reported) :
        LET name == utilities[i] \o ".timer"
            t == ProbedRecord(name, 4 * i - 1)
        IN  /\ runs[4 * i - 1] = Run("is-active", name, runs[4 * i - 1].outcome)
            /\ runs[4 * i] = Run("is-enabled", name, runs[4 * i].outcome)
            /\ t.enabled \in {"not-found", "error"} =>
                  Reported[i].timers = <<>>
            /\ t.enabled \notin {"not-found", "error"} =>
                  Reported[i].timers = <<t>>

C1_Witness ==
    /\ pc = "done"
    /\ Len(Reported) = 2
    /\ runs[4].outcome = Returned(<<"not-found", "\n">>)
    /\ Reported[1].timers = <<>>
    /\ runs[8].outcome = Returned(<<"enabled", "\n">>)
    /\ Len(Reported[2].timers) = 1
    /\ Reported[2].timers[1].enabled = "enabled"

\* the timer is hidden as well when the is-enabled probe failed to execute
C1_WitnessError ==
    /\ pc = "done"
    /\ Len(Reported) >= 1
    /\ runs[4].outcome.raised
    /\ Reported[1].timers = <<>>

\* C2: in every utility record the services list holds exactly one entry,
\* the status record of <name>.service, whatever the probes gave.
C2_OneService ==
    /\ \A i \in 1..Len(Reported) :
          LET name == utilities[i] \o ".service"
          IN  /\ runs[4 * i - 3].unit = name
              /\ runs[4 * i - 2].unit = name
              /\ Reported[i].name = utilities[i]
              /\ Reported[i].services = <<ProbedRecord(name, 4 * i - 3)>>
    /\ caller = "timer" =>
          status.services =
              <<ProbedRecord(utilities[idx] \o ".service", 4 * idx - 3)>>

\* the unit does not exist, and the is-active probe failed to execute
C2_Witness ==
    /\ pc = "done"
    /\ Len(Reported) >= 1
    /\ runs[1].outcome.raised
    /\ runs[2].outcome = Returned(<<"not-found", "\n">>)
    /\ Reported[1].services =
          <<[name |-> utilities[1] \o ".service", active |-> "error",
             enabled |-> "not-found"]>>

\* C7: with utilities.conf absent, get_enabled_utilities returns the empty
\* list, no systemctl command is run, and get_all_status returns
\* {"utilities": []}.
C7_AbsentConfig ==
    ~conf.exists =>
        /\ pc \in {"idle", "loop", "done"}
        /\ pc # "idle" => utilities = <<>> /\ runs = <<>>
        /\ pc = "done" =>
              response = [kind |-> "all_status",
                          value |-> [utilities |-> <<>>]]

C7_Witness ==
    /\ ~conf.exists
    /\ pc = "done"
    /\ utilities = <<>>
    /\ runs = <<>>
    /\ response.value.utilities = <<>>

-----------------------------------------------------------------------------
(* get_logs: a log request over a journalctl stdout of up to               *)
(* MaxJournalLines lines.                                                  *)

DefaultCount == 50
MicrosPerSecond == 1000000

\* JSON texts of journal lines, each an atomic piece of the stdout
EntryUp == "{\"__REALTIME_TIMESTAMP\":\"2500000\",\"MESSAGE\":\"up\"}"
EntryDown == "{\"__REALTIME_TIMESTAMP\":\"1000000\",\"MESSAGE\":\"down\"}"
EntryNoMessage == "{\"__REALTIME_TIMESTAMP\":\"7\"}"
EntryNoTimestamp == "{\"MESSAGE\":\"up\"}"
EntryTextTimestamp == "{\"__REALTIME_TIMESTAMP\":\"soon\",\"MESSAGE\":\"up\"}"
EntryNullTimestamp == "{\"__REALTIME_TIMESTAMP\":null,\"MESSAGE\":\"up\"}"
NotAnObject == "[]"
NotJson == "-- No entries --"

JsonTexts == {EntryUp, EntryDown, EntryNoMessage, EntryNoTimestamp,
              EntryTextTimestamp, EntryNullTimestamp, NotAnObject}

Absent == [kind |-> "absent"]
Str(chars) == [kind |-> "str", chars |-> chars]
Null == [kind |-> "null"]
Int(n) == [kind |-> "int", n |-> n]
Object(ts, msg) == [type |-> "object", ts |-> ts, msg |-> msg]

\* the value json.loads gives for each JSON text
JsonValue(text) ==
    CASE text = EntryUp ->
            Object(Str(<<"2", "5", "0", "0", "0", "0", "0">>), Str(<<"up">>))
      [] text = EntryDown ->
            Object(Str(<<"1", "0", "0", "0", "0", "0", "0">>),
                   Str(<<"down">>))
      [] text = EntryNoMessage -> Object(Str(<<"7">>), Absent)
      [] text = EntryNoTimestamp -> Object(Absent, Str(<<"up">>))
      [] text = EntryTextTimestamp ->
            Object(Str(<<"s", "o", "o", "n">>), Str(<<"up">>))
      [] text = EntryNullTimestamp -> Object(Null, Str(<<"up">>))
      [] text = NotAnObject -> [type |-> "array"]

\* line 118: json.loads(line); surrounding whitespace is allowed, anything
\* but one JSON text raises JSONDecodeError
JsonLoads(line) ==
    IF Len(Strip(line)) = 1 /\ Strip(line)[1] \in JsonTexts
    THEN JsonValue(Strip(line)[1])
    ELSE [type |-> "JSONDecodeError"]

Digits == {"0", "1", "2", "5", "7"}
DigitValue(c) ==
    CASE c = "0" -> 0 [] c = "1" -> 1 [] c = "2" -> 2 [] c = "5" -> 5
      [] c = "7" -> 7

RECURSIVE DecimalValue(_, _)
DecimalValue(chars, n) ==
    IF chars = <<>> THEN n
    ELSE DecimalValue(Tail(chars), 10 * n + DigitValue(Head(chars)))

\* line 120: int(x)
PyInt(x) ==
    CASE x.kind = "int" -> [ok |-> TRUE, n |-> x.n]
      [] x.kind = "str" ->
            IF x.chars # <<>> /\ \A i \in 1..Len(x.chars) : x.chars[i] \in Digits
            THEN [ok |-> TRUE, n |-> DecimalValue(x.chars, 0)]
            ELSE [ok |-> FALSE, exc |-> "ValueError"]
      [] OTHER -> [ok |-> FALSE, exc |-> "TypeError"]

\* dict.get(key, default)
Get(field, default) == IF field.kind = "absent" THEN default ELSE field

\* line 121, 123: datetime.fromtimestamp(us / 1_000_000).isoformat(), as
\* the seconds and microseconds since the epoch that the text denotes
IsoFormat(us) ==
    [seconds |-> us \div MicrosPerSecond,
     microseconds |-> us % MicrosPerSecond]

\* line 124: entry.get("MESSAGE", "")
Message(obj) == IF obj.msg.kind = "absent" THEN "" ELSE Join(obj.msg.chars)

\* a slip: entry.get("__REALTIME_TIMESTAMP") without the default
TimestampFieldNoDefault(obj) == IF obj.ts.kind = "absent" THEN Null ELSE obj.ts

\* line 120: entry.get("__REALTIME_TIMESTAMP", 0)
TimestampField(obj) == Get(obj.ts, Int(0))

\* a slip: JSONDecodeError left out of the inner except clause
OnDecodeErrorEscapes ==
    [kind |-> "raise", exc |-> "Expecting value: line 1 column 1 (char 0)"]

\* line 126-127: except (json.JSONDecodeError, ValueError): continue
OnDecodeError == [kind |-> "continue"]

\* line 115-127: one iteration of the loop over the lines
ParseLine(line) ==
    IF line = <<>> THEN [kind |-> "continue"]
    ELSE IF JsonLoads(line).type = "JSONDecodeError" THEN OnDecodeError
    ELSE IF JsonLoads(line).type # "object"
    THEN [kind |-> "raise",
          exc |-> "'list' object has no attribute 'get'"]
    ELSE LET t == PyInt(TimestampField(JsonLoads(line)))
         IN  IF t.ok
             THEN [kind |-> "append",
                   entry |-> [timestamp |-> IsoFormat(t.n),
                              message |-> Message(JsonLoads(line))]]
             ELSE IF t.exc = "ValueError"
             THEN [kind |-> "continue"]
             ELSE [kind |-> "raise",
                   exc |-> "int() argument must be a string, a bytes-like object or a real number, not 'NoneType'"]

LogUtilities == {"a", "b"}
JournalLineSet ==
    {<<>>, <<" ">>, <<NotJson>>} \cup {<<t>> : t \in JsonTexts}

RECURSIVE Terminated(_)
Terminated(ls) ==
    IF ls = <<>> THEN <<>> ELSE Head(ls) \o <<"\n">> \o Terminated(Tail(ls))

JournalOutcomes ==
    Outcomes({Terminated(ls) : ls \in SeqsUpTo(JournalLineSet, MaxJournalLines)})

InitLogs == conf = NoFile /\ Idle /\ served = FALSE /\ NoPinger

\* a call get_logs(utility): line 95-98
GetLogs ==
    /\ pc = "idle"
    /\ \E u \in LogUtilities : utility' = u
    /\ entries' = <<>>
    /\ runs' = <<>>
    /\ pc' = "journalctl"
    /\ UNCHANGED <<conf, utilities, idx, caller, unit, result, status, acc,
                   response, lines, exc,
                   path, served, pinger>>

JournalRun(service_name, count, outcome) ==
    [cmd |-> "journalctl", unit |-> service_name, n |-> count,
     outcome |-> outcome]

\* line 100-114, with the outcome of the journalctl run drawn from Outs
RunJournalctlFrom(Outs) ==
    /\ pc = "journalctl"
    /\ \E o \in Outs :
        /\ runs' = Append(runs,
                       JournalRun(ServiceName(utility), DefaultCount, o))
        /\ IF o.raised
           THEN /\ exc' = "[Errno 2] No such file or directory: 'journalctl'"
                /\ pc' = "except"
                /\ UNCHANGED <<lines, idx>>
           ELSE /\ lines' = SplitLines(Strip(o.stdout), <<>>)
                /\ idx' = 1
                /\ pc' = "for_line"
                /\ exc' = exc
    /\ UNCHANGED <<conf, utilities, caller, unit, result, status, acc,
                   response, utility, entries,
                   path, served, pinger>>

RunJournalctl == RunJournalctlFrom(JournalOutcomes)

\* line 114-127
LogsLine ==
    /\ pc = "for_line"
    /\ idx <= Len(lines)
    /\ LET step == ParseLine(lines[idx])
       IN  CASE step.kind = "continue" ->
                    /\ idx' = idx + 1
                    /\ UNCHANGED <<entries, exc, pc>>
             [] step.kind = "append" ->
                    /\ entries' = Append(entries, step.entry)
                    /\ idx' = idx + 1
                    /\ UNCHANGED <<exc, pc>>
             [] step.kind = "raise" ->
                    /\ exc' = step.exc
                    /\ pc' = "except"
                    /\ UNCHANGED <<entries, idx>>
    /\ UNCHANGED <<conf, utilities, caller, unit, result, status, acc, runs,
                   response, utility, lines,
                   path, served, pinger>>

\* a slip: the error result without its utility
ErrorResultBare(u, e) == [error |-> e, entries |-> <<>>]

\* line 130-134
ErrorResult(u, e) == [utility |-> u, error |-> e, entries |-> <<>>]

\* line 129-134
LogsExcept ==
    /\ pc = "except"
    /\ response' = [kind |-> "logs", value |-> ErrorResult(utility, exc)]
    /\ pc' = "done"
    /\ UNCHANGED <<conf, utilities, idx, caller, unit, result, status, acc,
                   runs, utility, lines, entries, exc,
                   path, served, pinger>>

\* a slip: the result named after the unit
LogsResultOfUnit(u, es) == [utility |-> ServiceName(u), entries |-> es]

\* line 136-139
LogsResult(u, es) == [utility |-> u, entries |-> es]

\* line 136-139
LogsReturn ==
    /\ pc = "for_line"
    /\ idx > Len(lines)
    /\ response' = [kind |-> "logs", value |-> LogsResult(utility, entries)]
    /\ pc' = "done"
    /\ UNCHANGED <<conf, utilities, idx, caller, unit, result, status, acc,
                   runs, utility, lines, entries, exc,
                   path, served, pinger>>

NextLogs == GetLogs \/ RunJournalctl \/ LogsLine \/ LogsExcept \/ LogsReturn

SpecLogs == InitLogs /\ [][NextLogs]_vars

\* the utility names a config file lists, top to bottom
RECURSIVE ConfigList(_)
ConfigList(ls) ==
    IF ls = <<>> THEN <<>>
    ELSE IF Head(ls)[1] \in {"#", "\n"}
         THEN ConfigList(Tail(ls))
         ELSE <<Head(ls)[1]>> \o ConfigList(Tail(ls))

\* C15: the utilities array get_all_status returns has exactly one record
\* per entry of the config list, in config order with duplicates kept, each
\* with enabled true, and every record is made of the probes of the request
\* that returns it, four per entry, whether or not a request went before.
C15_FreshRecords ==
    /\ pc = "loop" /\ idx = 1 => acc = <<>> /\ runs = <<>>
    /\ pc \in {"loop", "done"} => Len(runs) = 4 * Len(Reported)
    /\ pc = "done" =>
           /\ Len(Reported) = Len(utilities)
           /\ conf = NoFile => utilities = <<>>
           /\ \A ls \in SeqsUpTo(ConfLineSet, MaxConfLines) :
                  conf = ConfFile(Concat(ls)) => utilities = ConfigList(ls)
    /\ \A i \in 1..Len(Reported) :
           /\ Reported[i].name = utilities[i]
           /\ Reported[i].enabled = TRUE
           /\ Reported[i].services =
                  <<ProbedRecord(ServiceName(utilities[i]), 4 * i - 3)>>
           /\ \A j \in 1..Len(Reported[i].timers) :
                  Reported[i].timers[j] =
                      ProbedRecord(TimerName(utilities[i]), 4 * i - 1)

\* a later request listed one utility twice, with different probe results
C15_Witness ==
    /\ served
    /\ pc = "done"
    /\ Len(Reported) = 2
    /\ Reported[1].name = Reported[2].name
    /\ Reported[1].enabled /\ Reported[2].enabled
    /\ Reported[1].services[1].active = "error"
    /\ Reported[2].services[1].active = "active"

-----------------------------------------------------------------------------
(* Properties of get_logs.                                                 *)

LogsReturned == pc = "done" /\ response.kind = "logs"

\* the lines of the journalctl stdout, without their line ends
OutputLines ==
    LET raw == FileLines(runs[1].outcome.stdout, <<>>)
    IN  [i \in 1..Len(raw) |-> Body(raw[i])]

\* the JSON text a line consists of, "" when it is not one JSON text
JsonTextOf(line) ==
    IF Len(Trimmed(line)) = 1 /\ Trimmed(line)[1] \in JsonTexts
    THEN Trimmed(line)[1]
    ELSE ""

Malformed(line) == line # <<>> /\ JsonTextOf(line) = ""

\* journal entries with a numeric timestamp, and the entry each denotes
ValidTexts == {EntryUp, EntryDown, EntryNoMessage}
At(s, us) == [seconds |-> s, microseconds |-> us]
EntryOf(text) ==
    CASE text = EntryUp -> [timestamp |-> At(2, 500000), message |-> "up"]
      [] text = EntryDown -> [timestamp |-> At(1, 0), message |-> "down"]
      [] text = EntryNoMessage -> [timestamp |-> At(0, 7), message |-> ""]
      [] text = EntryNoTimestamp -> [timestamp |-> At(0, 0), message |-> "up"]

\* the entries of the lines whose JSON text is in `texts`, in line order
EntriesOf(texts) ==
    LET kept == SelectSeq(OutputLines, LAMBDA l : JsonTextOf(l) \in texts)
    IN  [i \in 1..Len(kept) |-> EntryOf(JsonTextOf(kept[i]))]

\* every line is empty, malformed, or one of `texts`
LinesAmong(texts) ==
    \A i \in 1..Len(OutputLines) :
        \/ OutputLines[i] = <<>>
        \/ Malformed(OutputLines[i])
        \/ JsonTextOf(OutputLines[i]) \in texts

\* C8: for a journal output of malformed (non-JSON) lines interleaved with
\* valid lines, get_logs returns without an error field and its entries
\* are the entries of the valid lines, one per valid line, in line order.
C8_ValidLinesInOrder ==
    (LogsReturned /\ ~runs[1].outcome.raised /\ LinesAmong(ValidTexts)) =>
        /\ DOMAIN response.value = {"utility", "entries"}
        /\ response.value.utility = utility
        /\ response.value.entries = EntriesOf(ValidTexts)

C8_Witness ==
    /\ LogsReturned
    /\ runs[1].outcome =
          Returned(Terminated(<<<<EntryUp>>, <<NotJson>>, <<EntryDown>>>>))
    /\ response.value.entries =
          <<[timestamp |-> At(2, 500000), message |-> "up"],
            [timestamp |-> At(1, 0), message |-> "down"]>>

SkippedByClaim == {EntryNoTimestamp, EntryTextTimestamp, EntryNullTimestamp}

\* C9 as stated: a line that parses as JSON but whose timestamp is missing
\* or non-numeric is silently skipped: it gives no entry, no error field
\* is set, and the entries of the valid lines are still returned.
C9_BadTimestampSkipped ==
    (LogsReturned /\ ~runs[1].outcome.raised
        /\ LinesAmong(ValidTexts \cup SkippedByClaim)) =>
        /\ "error" \notin DOMAIN response.value
        /\ response.value.entries = EntriesOf(ValidTexts)

\* C9 amended: a line that parses as a JSON object whose timestamp is a
\* string that is no integer is silently skipped (no entry, no error field,
\* the entries of the other lines still returned); a JSON object without
\* the timestamp field is not skipped but gives an entry with the timestamp
\* of the epoch (0 microseconds); a JSON object whose timestamp is null
\* aborts the fetch, which returns an error field and no entries.
C9_TextTimestampSkipped ==
    /\ (LogsReturned /\ ~runs[1].outcome.raised
           /\ LinesAmong(ValidTexts \cup {EntryNoTimestamp, EntryTextTimestamp}))
          =>
          /\ "error" \notin DOMAIN response.value
          /\ response.value.entries =
                EntriesOf(ValidTexts \cup {EntryNoTimestamp})
    /\ (LogsReturned /\ ~runs[1].outcome.raised
           /\ \E i \in 1..Len(OutputLines) :
                 JsonTextOf(OutputLines[i]) = EntryNullTimestamp)
          =>
          /\ "error" \in DOMAIN response.value
          /\ response.value.entries = <<>>

C9_Witness ==
    /\ LogsReturned
    /\ runs[1].outcome =
          Returned(Terminated(<<<<EntryUp>>, <<EntryTextTimestamp>>,
                                <<EntryNoTimestamp>>>>))
    /\ "error" \notin DOMAIN response.value
    /\ response.value.entries =
          <<[timestamp |-> At(2, 500000), message |-> "up"],
            [timestamp |-> At(0, 0), message |-> "up"]>>

\* a null timestamp after a parsed entry: the fetch is aborted
C9_WitnessNull ==
    /\ LogsReturned
    /\ runs[1].outcome =
          Returned(Terminated(<<<<EntryUp>>, <<EntryNullTimestamp>>>>))
    /\ "error" \in DOMAIN response.value
    /\ response.value.entries = <<>>

\* C10: when running journalctl itself fails, get_logs does not raise: it
\* returns the requested utility, an error field and an empty entries list.
C10_InvocationFailure ==
    (runs # <<>> /\ runs[1].cmd = "journalctl" /\ runs[1].outcome.raised) =>
        /\ pc \in {"except", "done"}
        /\ runs[1].unit = utility \o ".service"
        /\ LogsReturned =>
              /\ DOMAIN response.value = {"utility", "error", "entries"}
              /\ response.value.utility = utility
              /\ response.value.error = exc
              /\ response.value.entries = <<>>

C10_Witness ==
    /\ LogsReturned
    /\ runs[1].outcome.raised
    /\ response.value =
          [utility |-> "a",
           error |-> "[Errno 2] No such file or directory: 'journalctl'",
           entries |-> <<>>]

\* the output lines that are not empty
NonEmptyLines == {i \in 1..Len(OutputLines) : OutputLines[i] # <<>>}

\* C16: get_logs always comes to a result, no exception stopping it; the
\* result's utility is the requested name; a result with an error field has
\* no entries, whatever had been parsed before the failure; a result without
\* one has at most one entry per non-empty output line.
C16_AlwaysAResult ==
    /\ pc = "journalctl" => ENABLED RunJournalctl
    /\ pc = "for_line" => ENABLED (LogsLine \/ LogsReturn)
    /\ pc = "except" => ENABLED LogsExcept
    /\ LogsReturned =>
           /\ utility \in LogUtilities
           /\ response.value.utility = utility
           /\ "entries" \in DOMAIN response.value
           /\ "error" \in DOMAIN response.value =>
                  response.value.entries = <<>>
           /\ "error" \notin DOMAIN response.value =>
                  Len(response.value.entries) <= Cardinality(NonEmptyLines)

\* an entry had been parsed when a later line aborted the call
C16_Witness ==
    /\ LogsReturned
    /\ "error" \in DOMAIN response.value
    /\ entries # <<>>
    /\ response.value.entries = <<>>
    /\ response.value.utility = utility

\* a result without error, with fewer entries than non-empty lines
C16_WitnessSkipped ==
    /\ LogsReturned
    /\ "error" \notin DOMAIN response.value
    /\ Len(response.value.entries) = 1
    /\ Cardinality(NonEmptyLines) = 3

-----------------------------------------------------------------------------
(* api_logs: the route /api/logs/<utility>.                                *)

MaxNameLen == 2

\* characters a URL segment can hold: ASCII letters, an ASCII digit, a
\* letter outside ASCII, the hyphen, and characters that are none of these
AsciiLetters == {"a", "Z"}
AsciiDigits == {"7"}
OtherLetters == {"é"}
Punctuation == {"-", ";", "."}
UrlChars == AsciiLetters \cup AsciiDigits \cup OtherLetters \cup Punctuation

\* the route's string converter matches one or more characters
UrlNames == SeqsUpTo(UrlChars, MaxNameLen) \ {<<>>}

\* str.isalnum() of one character: true of every Unicode letter and digit
isalnum(c) == c \in AsciiLetters \cup AsciiDigits \cup OtherLetters

\* a slip: any() where the code has all()
ValidNameAny(name) ==
    \E i \in 1..Len(name) : isalnum(name[i]) \/ name[i] = "-"

\* line 407
ValidName(name) ==
    \A i \in 1..Len(name) : isalnum(name[i]) \/ name[i] = "-"

\* jsonify(body), status
Http(code, body) == [kind |-> "http", status |-> code, body |-> body]

\* line 403-409, up to the call of get_logs
api_logs ==
    /\ pc = "idle"
    /\ \E name \in UrlNames :
        /\ path' = name
        /\ IF ~ValidName(name)
           THEN /\ response' = Http(400, [error |-> "Invalid utility name"])
                /\ pc' = "done"
                /\ UNCHANGED <<caller, utility, entries, runs>>
           ELSE /\ caller' = "api_logs"
                /\ utility' = Join(name)
                /\ entries' = <<>>
                /\ runs' = <<>>
                /\ pc' = "journalctl"
                /\ UNCHANGED response
    /\ UNCHANGED <<conf, utilities, idx, unit, result, status, acc, lines,
                   exc, served, pinger>>

\* line 409: the result of get_logs becomes the body of the response
ApiLogsReturn ==
    /\ pc = "done"
    /\ caller = "api_logs"
    /\ response.kind = "logs"
    /\ response' = Http(200, response.value)
    /\ UNCHANGED <<conf, pc, utilities, idx, caller, unit, result, status,
                   acc, runs, utility, lines, entries, exc,
                   path, served, pinger>>

ApiJournalOutcomes ==
    Outcomes({Terminated(<<<<EntryUp>>>>),
              Terminated(<<<<EntryUp>>, <<NotAnObject>>>>)})

ApiRunJournalctl == RunJournalctlFrom(ApiJournalOutcomes)

NextApi ==
    \/ api_logs
    \/ ApiRunJournalctl
    \/ LogsLine
    \/ LogsExcept
    \/ LogsReturn
    \/ ApiLogsReturn

SpecApi == InitLogs /\ [][NextApi]_vars

-----------------------------------------------------------------------------
(* Properties of api_logs.                                                 *)

Requested == path # <<>>
BadRequest == Http(400, [error |-> "Invalid utility name"])
Rejected == pc = "done" /\ response = BadRequest /\ runs = <<>>

\* the names the pattern [A-Za-z0-9-]+ matches
MatchesAsciiPattern(name) ==
    /\ name # <<>>
    /\ \A i \in 1..Len(name) :
           name[i] \in AsciiLetters \cup AsciiDigits \cup {"-"}

\* C11 as stated: every requested name that fails [A-Za-z0-9-]+ is
\* answered 400 {"error": "Invalid utility name"} with journalctl never
\* run, so only names of ASCII letters, digits and hyphens reach get_logs.
C11_AsciiNamesOnly ==
    Requested /\ ~MatchesAsciiPattern(path) => Rejected

\* the names made of letters and digits of any script, and hyphens
Alphanumeric == AsciiLetters \cup AsciiDigits \cup OtherLetters
MatchesAlnumPattern(name) ==
    /\ name # <<>>
    /\ \A i \in 1..Len(name) : name[i] \in Alphanumeric \cup {"-"}

\* C11: every requested name holding a character that is neither a letter
\* or digit (of any script, ASCII or not) nor a hyphen is answered 400
\* {"error": "Invalid utility name"} with journalctl never run; every other
\* name is passed to get_logs as it is and answered 200 with its result.
C11_AlnumNamesOnly ==
    Requested =>
        IF ~MatchesAlnumPattern(path)
        THEN Rejected
        ELSE /\ utility = Join(path)
             /\ \A i \in 1..Len(runs) :
                    runs[i].unit = ServiceName(Join(path))
             /\ pc = "done" =>
                    /\ runs # <<>>
                    /\ response.kind \in {"logs", "http"}
                    /\ response.kind = "http" =>
                           /\ response.status = 200
                           /\ response.body.utility = Join(path)

\* a name with a shell metacharacter was refused
C11_Witness == Rejected /\ path = <<"a", ";">>

\* a name with a letter outside ASCII was served
C11_WitnessOtherLetter ==
    /\ path = <<"a", "é">>
    /\ pc = "done"
    /\ response.kind = "http"
    /\ response.status = 200
    /\ runs # <<>>

-----------------------------------------------------------------------------
(* The keep-alive pinger.  Two scripts of the repository define            *)
(* load_config, ping_supabase and main:                                    *)
(*   supabase-keepalive/scripts/keepalive.py  and                          *)
(*   scripts/supabase_keepalive.py.                                        *)

KeepaliveScript == "supabase-keepalive/scripts/keepalive.py"
ScriptsModule == "scripts/supabase_keepalive.py"

\* the variables load_config reads, in the order it tests them
CredentialNames ==
    <<"SUPABASE_URL", "SUPABASE_KEY", "SUPABASE_EMAIL", "SUPABASE_PASSWORD">>
Names == {CredentialNames[i] : i \in 1..Len(CredentialNames)}

\* Python's None, what os.environ.get yields for an unset variable
None == "<None>"

\* a variable of the process environment is unset, empty, or set
EnvValues(n) == {None, "", "env:" \o n}
\* a variable the .env file does not mention, or sets
DotenvValues(n) == {None, "file:" \o n}
AnyValues ==
    UNION {EnvValues(n) \cup DotenvValues(n) : n \in Names}
Environs == {e \in [Names -> AnyValues] : \A n \in Names : e[n] \in EnvValues(n)}
Dotenvs == {f \in [Names -> AnyValues] : \A n \in Names : f[n] \in DotenvValues(n)}
EnvPaths == {None, ".env"}
Backends == {"up", "create_client raises", "sign_in_with_password raises"}

\* `if x:` and `if not x:` on an optional string
Truthy(x) == x # None /\ x # ""

\* dotenv.load_dotenv(path): sets the variables of the file that the
\* environment does not have yet
load_dotenv(env, file) ==
    [n \in Names |-> IF env[n] = None THEN file[n] ELSE env[n]]

Call(fn, args) == [fn |-> fn, args |-> args]
ReturnValue(v) == [kind |-> "return", value |-> v]
RaiseValueError(msg) ==
    [kind |-> "raise", type |-> "ValueError", message |-> msg]

\* keepalive.py line 39-46: the variable the first failing test is about
FirstUnset(e) ==
    IF ~Truthy(e["SUPABASE_URL"]) THEN "SUPABASE_URL"
    ELSE IF ~Truthy(e["SUPABASE_KEY"]) THEN "SUPABASE_KEY"
    ELSE IF ~Truthy(e["SUPABASE_EMAIL"]) THEN "SUPABASE_EMAIL"
    ELSE IF ~Truthy(e["SUPABASE_PASSWORD"]) THEN "SUPABASE_PASSWORD"
    ELSE None

\* keepalive.py line 19-48: the environment it leaves and its outcome
load_config(p, env, file) ==
    LET e == IF Truthy(p) THEN load_dotenv(env, file) ELSE env
    IN  IF FirstUnset(e) # None
        THEN [environ |-> e,
              outcome |-> RaiseValueError(FirstUnset(e) \o " is not set")]
        ELSE [environ |-> e,
              outcome |-> ReturnValue([url |-> e["SUPABASE_URL"],
                                       key |-> e["SUPABASE_KEY"],
                                       email |-> e["SUPABASE_EMAIL"],
                                       password |-> e["SUPABASE_PASSWORD"]])]

\* keepalive.py line 51-69: the backend calls it makes and its outcome
ping_supabase(b, url, key, email, password) ==
    IF b = "create_client raises"
    THEN [calls |-> <<Call("create_client", <<url, key>>)>>,
          outcome |-> ReturnValue(FALSE)]
    ELSE [calls |-> <<Call("create_client", <<url, key>>),
                      Call("sign_in_with_password", <<email, password>>)>>,
          outcome |-> ReturnValue(b = "up")]

\* scripts/supabase_keepalive.py line 19
scripts_load_config(p, env, file) ==
    [environ |-> env, outcome |-> ReturnValue([url |-> "", key |-> ""])]

\* scripts/supabase_keepalive.py line 32
scripts_ping_supabase(b, url, key) ==
    [calls |-> <<>>, outcome |-> ReturnValue(FALSE)]

\* the arguments of a direct call of ping_supabase
PingArguments ==
    {[url |-> "env:SUPABASE_URL", key |-> "env:SUPABASE_KEY",
      email |-> "env:SUPABASE_EMAIL", password |-> "env:SUPABASE_PASSWORD"],
     [url |-> "file:SUPABASE_URL", key |-> "file:SUPABASE_KEY",
      email |-> "file:SUPABASE_EMAIL", password |-> "file:SUPABASE_PASSWORD"]}

InitKeepalive ==
    /\ conf = NoFile
    /\ Idle
    /\ served = FALSE
    /\ module \in {KeepaliveScript, ScriptsModule}
    /\ env_path \in EnvPaths
    /\ environ \in Environs
    /\ dotenv \in Dotenvs
    /\ backend \in Backends
    /\ config = <<>>
    /\ calls = <<>>

dashboard == <<conf, utilities, idx, caller, unit, result, status, acc, runs,
               utility, lines, entries, exc, path, served>>

\* a test calls load_config(env_path) of keepalive.py
LoadConfig ==
    /\ pc = "idle"
    /\ module = KeepaliveScript
    /\ LET r == load_config(env_path, environ, dotenv)
       IN  /\ environ' = r.environ
           /\ response' = r.outcome
    /\ calls' = <<Call("load_config", <<env_path>>)>>
    /\ pc' = "done"
    /\ UNCHANGED <<dashboard, module, env_path, dotenv, backend, config>>

\* a test calls ping_supabase(url, key, email, password) of keepalive.py
PingSupabase ==
    /\ pc = "idle"
    /\ module = KeepaliveScript
    /\ \E a \in PingArguments :
         LET r == ping_supabase(backend, a.url, a.key, a.email, a.password)
         IN  /\ calls' = <<Call("ping_supabase",
                                <<a.url, a.key, a.email, a.password>>)>>
                         \o r.calls
             /\ response' = r.outcome
    /\ pc' = "done"
    /\ UNCHANGED <<dashboard, module, env_path, environ, dotenv, backend,
                   config>>

\* keepalive.py line 81-87: main(env_path) up to the ping
MainLoadConfig ==
    /\ pc = "idle"
    /\ module = KeepaliveScript
    /\ calls' = <<Call("main", <<env_path>>),
                  Call("load_config", <<env_path>>)>>
    /\ LET r == load_config(env_path, environ, dotenv)
       IN  /\ environ' = r.environ
           /\ IF r.outcome.kind = "raise"
              THEN /\ response' = ReturnValue(1)
                   /\ pc' = "done"
                   /\ UNCHANGED config
              ELSE /\ config' = r.outcome.value
                   /\ pc' = "ping"
                   /\ UNCHANGED response
    /\ UNCHANGED <<dashboard, module, env_path, dotenv, backend>>

\* keepalive.py line 89-94
MainPing ==
    /\ pc = "ping"
    /\ module = KeepaliveScript
    /\ LET r == ping_supabase(backend, config.url, config.key, config.email,
                              config.password)
       IN  /\ calls' = calls
                       \o <<Call("ping_supabase",
                                 <<config.url, config.key, config.email,
                                   config.password>>)>>
                       \o r.calls
           /\ response' = ReturnValue(IF r.outcome.value THEN 0 ELSE 1)
    /\ pc' = "done"
    /\ UNCHANGED <<dashboard, module, env_path, environ, dotenv, backend,
                   config>>

\* a test calls load_config(env_path) of scripts/supabase_keepalive.py
ScriptsLoadConfig ==
    /\ pc = "idle"
    /\ module = ScriptsModule
    /\ LET r == scripts_load_config(env_path, environ, dotenv)
       IN  /\ environ' = r.environ
           /\ response' = r.outcome
    /\ calls' = <<Call("load_config", <<env_path>>)>>
    /\ pc' = "done"
    /\ UNCHANGED <<dashboard, module, env_path, dotenv, backend, config>>

\* a test calls ping_supabase(url, key) of scripts/supabase_keepalive.py
ScriptsPingSupabase ==
    /\ pc = "idle"
    /\ module = ScriptsModule
    /\ \E a \in PingArguments :
         LET r == scripts_ping_supabase(backend, a.url, a.key)
         IN  /\ calls' = <<Call("ping_supabase", <<a.url, a.key>>)>>
                         \o r.calls
             /\ response' = r.outcome
    /\ pc' = "done"
    /\ UNCHANGED <<dashboard, module, env_path, environ, dotenv, backend,
                   config>>

\* scripts/supabase_keepalive.py line 35-44: main(env_path)
ScriptsMain ==
    /\ pc = "idle"
    /\ module = ScriptsModule
    /\ calls' = <<Call("main", <<env_path>>)>>
    /\ response' = ReturnValue(1)
    /\ pc' = "done"
    /\ UNCHANGED <<dashboard, module, env_path, environ, dotenv, backend,
                   config>>

NextKeepalive ==
    \/ LoadConfig
    \/ PingSupabase
    \/ MainLoadConfig
    \/ MainPing
    \/ ScriptsLoadConfig
    \/ ScriptsPingSupabase
    \/ ScriptsMain

SpecKeepalive == InitKeepalive /\ [][NextKeepalive]_vars

-----------------------------------------------------------------------------
(* Properties of the keep-alive pinger.                                    *)

Entered(fn) == calls # <<>> /\ calls[1].fn = fn
Finished == pc = "done"
MadeCall(fn) == \E i \in 1..Len(calls) : calls[i].fn = fn

\* the value the script finds for variable n: the environment's, or the
\* .env file's when a path is given and the environment has none
Found(n) ==
    IF env_path = ".env" /\ environ[n] = None THEN dotenv[n] ELSE environ[n]
Missing(n) == Found(n) \in {None, ""}
SomeMissing == \E n \in Names : Missing(n)

MissingCredentialHandled ==
    SomeMissing =>
        /\ Entered("load_config") /\ Finished =>
               /\ response.kind = "raise"
               /\ response.type = "ValueError"
               /\ \E n \in Names :
                      Missing(n) /\ response.message = n \o " is not set"
               /\ Missing("SUPABASE_URL") =>
                      response.message = "SUPABASE_URL is not set"
        /\ Entered("main") =>
               /\ ~MadeCall("ping_supabase")
               /\ ~MadeCall("create_client")
               /\ ~MadeCall("sign_in_with_password")
               /\ Finished => response = ReturnValue(1)

\* C12: in either script, when a required credential is missing,
\* load_config raises a ValueError whose message names a missing variable
\* (SUPABASE_URL whenever the URL is missing), and main returns 1 without
\* calling ping_supabase or the backend.
C12_MissingCredential == MissingCredentialHandled

\* the same of supabase-keepalive/scripts/keepalive.py alone
C12_InKeepaliveScript == module = KeepaliveScript => MissingCredentialHandled

\* load_config of keepalive.py raised for a missing key, the URL being set
C12_InKeepaliveScriptWitness ==
    /\ module = KeepaliveScript
    /\ Entered("load_config") /\ Finished
    /\ ~Missing("SUPABASE_URL") /\ Missing("SUPABASE_KEY")
    /\ response = RaiseValueError("SUPABASE_KEY is not set")

ExitCodes ==
    Entered("main") /\ Finished =>
        /\ response.kind = "return"
        /\ response.value \in {0, 1}
        /\ response.value = 0 <=> (~SomeMissing /\ backend = "up")
        /\ MadeCall("load_config")
        /\ \A i \in 1..Len(calls) :
               calls[i].fn = "load_config" => calls[i].args = <<env_path>>

\* C13: in either script, main returns 0 when the configuration loads and
\* the ping succeeds and 1 in every other case, nothing else, and calls
\* load_config with its own env_path argument.
C13_ExitCodes == ExitCodes

\* the same of supabase-keepalive/scripts/keepalive.py alone
C13_InKeepaliveScript == module = KeepaliveScript => ExitCodes

\* main of keepalive.py returned 0, the credentials coming from the file
C13_InKeepaliveScriptWitness ==
    /\ module = KeepaliveScript
    /\ Entered("main") /\ Finished
    /\ env_path = ".env"
    /\ response = ReturnValue(0)
    /\ config.url = "file:SUPABASE_URL"

PingOutcome ==
    Entered("ping_supabase") /\ Finished =>
        /\ response.kind = "return"
        /\ response.value \in BOOLEAN
        /\ response.value <=> backend = "up"

\* C14: in either script, ping_supabase returns True when the client is
\* created and the backend call completes, and returns False, raising
\* nothing, when either of them raises.
C14_PingOutcome == PingOutcome

\* the same of supabase-keepalive/scripts/keepalive.py alone
C14_InKeepaliveScript == module = KeepaliveScript => PingOutcome

\* ping_supabase of keepalive.py returned False after a failed sign-in
C14_InKeepaliveScriptWitness ==
    /\ module = KeepaliveScript
    /\ Entered("ping_supabase") /\ Finished
    /\ backend = "sign_in_with_password raises"
    /\ MadeCall("sign_in_with_password")
    /\ response = ReturnValue(FALSE)
====
